---- MODULE Spec2Model ----
(***************************************************************************)
(* Model of the crawl controller scrape_amazon_search of src/app.py and of *)
(* the title, link and rating selectors of extract_from_block.             *)
(*                                                                         *)
(* Text is a sequence of one-character strings.  A Python Optional[str] is *)
(* a record [some, text]; a BeautifulSoup element (or a failed find) is a  *)
(* record [some, nodes], nodes being the element's text nodes in document  *)
(* order.                                                                  *)
(***************************************************************************)
EXTENDS Integers, Sequences, FiniteSets, TLC

\* ------------------------------------------------------------------ bounds
\* Largest max_pages a run is started with.
MaxPagesBound == 2
\* Largest max_items a run is started with (0 stands for None: no cap).
MaxItemsBound == 1
\* Largest number of result blocks on one fetched page.
MaxBlocks == 2
\* Largest number of elements of one block that carry an aria-label.
MaxAriaLabels == 3

\* ------------------------------------------------------------ Python values
PyNone == [some |-> FALSE, text |-> <<>>]
PyStr(t) == [some |-> TRUE, text |-> t]
\* Python truthiness of an Optional[str]: None and "" are falsy.
Truthy(v) == v.some /\ Len(v.text) > 0
\* Python's `a or b`.
PyOr(a, b) == IF Truthy(a) THEN a ELSE b

NoElem == [some |-> FALSE, nodes |-> <<>>]
Elem(nodes) == [some |-> TRUE, nodes |-> nodes]

\* The characters str.strip() removes: those for which str.isspace() holds.
\* U+0020, U+0009, U+000A, U+000D, U+000C are written with their escapes;
\* U+000B, U+001C..U+001F, U+0085, U+00A0 (no-break space) and U+1680 are
\* written as the characters themselves, in that order.  The remaining
\* Unicode spaces (U+2000..U+200A, U+2028, U+2029, U+202F, U+205F, U+3000)
\* cannot occur in a string of this module, so no text here contains them.
Whitespace ==
    {" ", "\t", "\n", "\r", "\f",
     "", "", "", "", "", "", " ", " "}

IsSpace(c) == c \in Whitespace

RECURSIVE LStrip(_)
LStrip(t) == IF t # <<>> /\ IsSpace(Head(t)) THEN LStrip(Tail(t)) ELSE t

RECURSIVE RStrip(_)
RStrip(t) ==
    IF t # <<>> /\ IsSpace(t[Len(t)]) THEN RStrip(SubSeq(t, 1, Len(t) - 1)) ELSE t

\* str.strip()
Strip(t) == LStrip(RStrip(t))

\* Tag.get_text(strip=True): every text node stripped, empty ones dropped,
\* the rest joined without a separator.
RECURSIVE GetText(_)
GetText(nodes) ==
    IF nodes = <<>> THEN <<>> ELSE Strip(Head(nodes)) \o GetText(Tail(nodes))

safe_text(elem) == IF ~elem.some THEN PyNone ELSE PyStr(GetText(elem.nodes))

\* --------------------------------------------------------- field extractor
\* The title of a block: h2 > span, else the h2's own text, else the
\* a.a-link-normal.a-text-normal anchor.  A Tag is always truthy, so `if
\* title_h2:` tests only that the h2 was found.
ExtractTitle(block) ==
    LET t1 == IF block.h2.some
              THEN PyOr(safe_text(block.h2span), safe_text(block.h2))
              ELSE PyNone
    IN  IF ~Truthy(t1) THEN PyOr(safe_text(block.a_title), t1) ELSE t1

Origin == <<"https://www.amazon.com">>

ExtractLink(block) ==
    IF block.href.some THEN PyStr(Origin \o block.href.text) ELSE PyNone

\* "out of 5 stars"
RatingPhrase ==
    <<"o", "u", "t", " ", "o", "f", " ", "5", " ", "s", "t", "a", "r", "s">>

\* Python's `sub in t` on strings
Contains(t, sub) ==
    \E i \in 1..(Len(t) - Len(sub) + 1) : SubSeq(t, i, i + Len(sub) - 1) = sub

\* The raw rating of a block: the text of span.a-icon-alt when there is one;
\* else block.find(attrs={"aria-label": True}), the first element of the
\* block that carries an aria-label, and its label if that label contains
\* "out of 5 stars"; else None.
ExtractRatingRaw(block) ==
    IF block.rating_span.some
    THEN safe_text(block.rating_span)
    ELSE IF block.aria_labels # <<>>
               /\ Contains(Head(block.aria_labels), RatingPhrase)
         THEN PyStr(Head(block.aria_labels))
         ELSE PyNone

\* The record extract_from_block returns, restricted to the fields the
\* crawl controller and the title, link and rating selectors decide.
extract_from_block(block) ==
    [title |-> ExtractTitle(block), link |-> ExtractLink(block),
     rating_raw |-> ExtractRatingRaw(block)]

\* ------------------------------------------------------------------ inputs
\* A result block: its h2, the first span of the h2, its title anchor, the
\* href of its first anchor, its span.a-icon-alt and the aria-label values
\* of its elements in document order.  The blocks of the crawl carry no
\* rating markup.
Block(h2, h2span, a_title, href) ==
    [h2 |-> h2, h2span |-> h2span, a_title |-> a_title, href |-> href,
     rating_span |-> NoElem, aria_labels |-> <<>>]

\* <h2><span>&nbsp;A</span></h2>, title "A" through the span
BlockSpanA == Block(Elem(<< <<" ", "A">> >>), Elem(<< <<" ", "A">> >>), NoElem,
                    PyStr(<<"/1">>))
\* no h2, <a class="a-link-normal a-text-normal">B</a>
BlockLinkB == Block(NoElem, NoElem, Elem(<< <<"B">> >>), PyStr(<<"/3">>))
\* no h2 and no title anchor: title None
BlockNoTitle == Block(NoElem, NoElem, NoElem, PyNone)
\* <h2><span>\r</span></h2>: the span's text and the h2's own text are both
\* "" after stripping, and there is no title anchor: title ""
BlockBlank == Block(Elem(<< <<"\r">> >>), Elem(<< <<"\r">> >>), NoElem,
                    PyStr(<<"/5">>))

Blocks == {BlockSpanA, BlockLinkB, BlockNoTitle, BlockBlank}

\* What find_product_blocks can return for one page.
Pages == UNION {[1..n -> Blocks] : n \in 0..MaxBlocks}

\* HTTP statuses the server answers with.
StatusCodes == {200, 404, 503}

\* ------------------------------------------------------- crawl controller
VARIABLES
    max_pages,        \* parameter max_pages
    max_items,        \* parameter max_items; 0 is the falsy value (None or 0)
    pc,               \* position in scrape_amazon_search
    page,             \* the page counter
    blocks,           \* blocks of the page being processed
    idx,              \* position of the for loop in blocks
    items,            \* the accumulating result list
    seen,             \* titles seen this run
    found_this_page,  \* new records of the page being processed
    fetched,          \* history: the block lists of the pages fetched with status 200
    log               \* history: the observable events of the run, in order

vars == <<max_pages, max_items, pc, page, blocks, idx, items, seen,
          found_this_page, fetched, log>>

\* The history grows by one event.
Record(l, e) == Append(l, e)

Event(ev, p, n) == [ev |-> ev, page |-> p, n |-> n]

\* mutant: the loop runs one page too far
LoopCondOffByOne(p, mp) == p <= mp + 1

\* `while page <= max_pages`
LoopCond(p, mp) == p <= mp

\* mutant: the status of the response is not looked at
FetchSucceededAlways(status) == TRUE

\* `resp.status_code != 200` is false
FetchSucceeded(status) == status = 200

\* mutant: only None is rejected, "" passes
HasTitleNotNone(data) == data.title.some

\* `if not data.get("title"): continue` is taken when this is false
HasTitle(data) == Truthy(data.title)

\* mutant: the seen set is not consulted
AlreadySeenNever(title, s) == FALSE

\* `if title in seen: continue`
AlreadySeen(title, s) == title \in s

\* mutant: the cap test is off by one
CapReachedLate(mi, its) == mi # 0 /\ Len(its) > mi

\* `max_items and len(items) >= max_items`
CapReached(mi, its) == mi # 0 /\ Len(its) >= mi

\* mutant: a page without new records does not end the crawl
NoResultsNever(found) == FALSE

\* `if found_this_page == 0: break`
NoResults(found) == found = 0

\* `page += 1`
NextPageNo(p) == p + 1

\* mutant: the record is put in front of the list
AppendItemFront(its, data) == <<data>> \o its

\* `items.append(data)`
AppendItem(its, data) == Append(its, data)

\* mutant: no sleep after the last page
PolitenessSleepNotLast(l, p) ==
    IF p < max_pages THEN Record(l, Event("sleep", p, 0)) ELSE l

\* `time.sleep(sleep_sec)`, as an event of the run
PolitenessSleep(l, p) == Record(l, Event("sleep", p, 0))

\* mutant: the failure is raised to the caller, the function never returns
AfterFetchFailureRaise == "raised"

\* where control goes when requests.get raises or the status is not 200:
\* `break` leaves the while loop, and the function returns
AfterFetchFailure == "done"

Init ==
    /\ max_pages \in 1..MaxPagesBound
    /\ max_items \in 0..MaxItemsBound
    /\ pc = "loop"
    /\ page = 1
    /\ blocks = <<>>
    /\ idx = 0
    /\ items = <<>>
    /\ seen = {}
    /\ found_this_page = 0
    /\ fetched = <<>>
    /\ log = <<>>

\* The event list after a `break` or the end of the loop: the return follows
\* with nothing in between.
Returning(l, its) == Record(l, Event("return", 0, Len(its)))

\* requests.get raises RequestException: logged, break, return items.
RequestRaises ==
    /\ pc = "loop" /\ LoopCond(page, max_pages)
    /\ pc' = AfterFetchFailure
    /\ log' = LET l == Record(log, Event("fetch", page, 0))
              IN  IF AfterFetchFailure = "done" THEN Returning(l, items) ELSE l
    /\ UNCHANGED <<max_pages, max_items, page, blocks, idx, items, seen,
                   found_this_page, fetched>>

\* the response has a status other than 200: logged, break, return items.
RequestNon200 ==
    /\ pc = "loop" /\ LoopCond(page, max_pages)
    /\ \E status \in StatusCodes :
          /\ ~FetchSucceeded(status)
          /\ log' = LET l == Record(log, Event("fetch", page, status))
                    IN  IF AfterFetchFailure = "done" THEN Returning(l, items) ELSE l
    /\ pc' = AfterFetchFailure
    /\ UNCHANGED <<max_pages, max_items, page, blocks, idx, items, seen,
                   found_this_page, fetched>>

\* status 200: the page is parsed, its blocks located, found_this_page reset.
RequestOk ==
    /\ pc = "loop" /\ LoopCond(page, max_pages)
    /\ \E status \in StatusCodes :
          /\ FetchSucceeded(status)
          /\ log' = Record(log, Event("fetch", page, status))
    /\ \E pg \in Pages :
          /\ blocks' = pg
          /\ fetched' = Append(fetched, pg)
    /\ idx' = 1
    /\ found_this_page' = 0
    /\ pc' = "for"
    /\ UNCHANGED <<max_pages, max_items, page, items, seen>>

\* `while page <= max_pages` is false: return items.
LoopExit ==
    /\ pc = "loop" /\ ~LoopCond(page, max_pages)
    /\ pc' = "done"
    /\ log' = Returning(log, items)
    /\ UNCHANGED <<max_pages, max_items, page, blocks, idx, items, seen,
                   found_this_page, fetched>>

\* one iteration of `for b in blocks` that ends in the first `continue`
ForSkipNoTitle ==
    /\ pc = "for" /\ idx <= Len(blocks)
    /\ ~HasTitle(extract_from_block(blocks[idx]))
    /\ idx' = idx + 1
    /\ UNCHANGED <<max_pages, max_items, pc, page, blocks, items, seen,
                   found_this_page, fetched, log>>

\* one iteration that ends in the second `continue`
ForSkipSeen ==
    /\ pc = "for" /\ idx <= Len(blocks)
    /\ LET data == extract_from_block(blocks[idx])
       IN  HasTitle(data) /\ AlreadySeen(data.title.text, seen)
    /\ idx' = idx + 1
    /\ UNCHANGED <<max_pages, max_items, pc, page, blocks, items, seen,
                   found_this_page, fetched, log>>

\* one iteration that appends the record; `break` when the cap is reached
ForAppend ==
    /\ pc = "for" /\ idx <= Len(blocks)
    /\ LET data == extract_from_block(blocks[idx])
       IN  /\ HasTitle(data) /\ ~AlreadySeen(data.title.text, seen)
           /\ seen' = seen \cup {data.title.text}
           /\ items' = AppendItem(items, data)
    /\ found_this_page' = found_this_page + 1
    /\ log' = Record(log, Event("append", page, Len(items')))
    /\ IF CapReached(max_items, items')
       THEN pc' = "sleep" /\ idx' = idx
       ELSE pc' = "for" /\ idx' = idx + 1
    /\ UNCHANGED <<max_pages, max_items, page, blocks, fetched>>

\* the for loop is exhausted
ForEnd ==
    /\ pc = "for" /\ idx > Len(blocks)
    /\ pc' = "sleep"
    /\ UNCHANGED <<max_pages, max_items, page, blocks, idx, items, seen,
                   found_this_page, fetched, log>>

\* time.sleep(sleep_sec)
Sleep ==
    /\ pc = "sleep"
    /\ pc' = "slept"
    /\ log' = PolitenessSleep(log, page)
    /\ UNCHANGED <<max_pages, max_items, page, blocks, idx, items, seen,
                   found_this_page, fetched>>

\* `if max_items and len(items) >= max_items: break`
StopAtCap ==
    /\ pc = "slept" /\ CapReached(max_items, items)
    /\ pc' = "done"
    /\ log' = Returning(log, items)
    /\ UNCHANGED <<max_pages, max_items, page, blocks, idx, items, seen,
                   found_this_page, fetched>>

\* `if found_this_page == 0: break`
StopNoResults ==
    /\ pc = "slept" /\ ~CapReached(max_items, items)
    /\ NoResults(found_this_page)
    /\ pc' = "done"
    /\ log' = Returning(log, items)
    /\ UNCHANGED <<max_pages, max_items, page, blocks, idx, items, seen,
                   found_this_page, fetched>>

\* `page += 1` and back to the loop test
NextPage ==
    /\ pc = "slept" /\ ~CapReached(max_items, items)
    /\ ~NoResults(found_this_page)
    /\ page' = NextPageNo(page)
    /\ pc' = "loop"
    /\ UNCHANGED <<max_pages, max_items, blocks, idx, items, seen,
                   found_this_page, fetched, log>>

Next ==
    \/ RequestRaises
    \/ RequestNon200
    \/ RequestOk
    \/ LoopExit
    \/ ForSkipNoTitle
    \/ ForSkipSeen
    \/ ForAppend
    \/ ForEnd
    \/ Sleep
    \/ StopAtCap
    \/ StopNoResults
    \/ NextPage

Spec == Init /\ [][Next]_vars

\* Every call the function makes returns, so the function keeps running
\* until it returns.
FairSpec == Spec /\ WF_vars(Next)

Done == pc = "done"

\* ------------------------------------------------------------ observations
IsFetch(e) == e.ev = "fetch"
IsFailedFetch(e) == e.ev = "fetch" /\ e.n # 200
IsAppend(e) == e.ev = "append"
IsSleep(e) == e.ev = "sleep"
IsReturn(e) == e.ev = "return"

\* the fetches of the run, in order
FetchEvents == SelectSeq(log, IsFetch)

\* the number of events of l at positions a..b that satisfy Is
Count(l, a, b, Is(_)) == Cardinality({k \in a..b : k <= Len(l) /\ Is(l[k])})

RECURSIVE Flatten(_)
Flatten(pages) ==
    IF pages = <<>> THEN <<>> ELSE Head(pages) \o Flatten(Tail(pages))

TitleA == PyStr(<<"A">>)
TitleB == PyStr(<<"B">>)

\* ------------------------------------------------------------------ claims

\* C1: at every step of every run the result list never holds two records
\* with the same non-blank title.
C1_UniqueTitles ==
    \A i, j \in 1..Len(items) :
        (i # j /\ Truthy(items[i].title)) => items[i].title # items[j].title

\* C1 witness: page 1 carried title A twice and page 2 carried it again
\* besides B; every block was looked at and the run returned A and B once
\* each.
C1_Witness ==
    /\ pc = "done" /\ max_items = 0
    /\ fetched = << <<BlockSpanA, BlockSpanA>>, <<BlockSpanA, BlockLinkB>> >>
    /\ Len(items) = 2

\* C2: with max_items set (>= 1) the result list is never longer than
\* max_items, at any step and at return.
C2_CapRespected == max_items >= 1 => Len(items) <= max_items

\* C2 witness: the cap 1 was reached at the first block of a page whose second
\* block carries another new title; the run returned one record.
C2_Witness ==
    /\ pc = "done" /\ max_items = 1
    /\ blocks = <<BlockSpanA, BlockLinkB>>
    /\ Len(items) = 1

\* C3: the pages requested are exactly 1, 2, ..., n in this order, for some
\* n <= max_pages.
C3_FetchOrder ==
    LET f == FetchEvents
    IN  /\ Len(f) <= max_pages
        /\ \A k \in 1..Len(f) : f[k].page = k

\* C3 witness: a run that requested all of its max_pages = 2 pages, left the
\* loop through its bound and returned.
C3_Witness ==
    /\ pc = "done" /\ max_pages = 2 /\ page = 3
    /\ Len(FetchEvents) = 2
    /\ Len(fetched) = 2

\* C4: a failed fetch of page p (an exception or a status other than 200) is
\* the last fetch of the run and is followed at once by the return; the
\* result is the list as it was before that fetch, the records appended on
\* pages 1..p-1, and the run made exactly p fetches.
C4_FailureStops ==
    \A k \in 1..Len(log) :
        IsFailedFetch(log[k]) =>
            /\ pc = "done"
            /\ Len(log) = k + 1
            /\ IsReturn(log[k + 1])
            /\ log[k + 1].n = Len(items)
            /\ Len(items) = Count(log, 1, k - 1, IsAppend)
            /\ \A j \in 1..(k - 1) : IsAppend(log[j]) => log[j].page < log[k].page
            /\ Len(FetchEvents) = log[k].page
            /\ Len(fetched) = log[k].page - 1

\* C4 witness: page 1 gave 2 new records, the fetch of page 2 failed, and the
\* run returned the 2 records after exactly 2 fetches.
C4_Witness ==
    /\ pc = "done" /\ max_pages = 2
    /\ Len(items) = 2
    /\ Len(FetchEvents) = 2
    /\ IsFailedFetch(FetchEvents[2])
    /\ fetched = << <<BlockSpanA, BlockLinkB>> >>

\* C5: a page fetched with status 200 that adds no record (the sleep follows
\* the fetch with no append in between) is the last page fetched: the only
\* event after its sleep is the return.  A page 1 without blocks gives an
\* empty result after one fetch.
C5_EmptyPageStops ==
    /\ \A k \in 1..Len(log) :
          (IsFetch(log[k]) /\ ~IsFailedFetch(log[k])
              /\ k < Len(log) /\ IsSleep(log[k + 1])) =>
             /\ \A j \in (k + 1)..Len(log) : ~IsFetch(log[j])
             /\ pc \in {"slept", "done"}
             /\ Len(log) <= k + 2
             /\ Len(log) = k + 2 => IsReturn(log[k + 2])
    /\ (pc = "done" /\ Len(fetched) >= 1 /\ fetched[1] = <<>>) =>
          (items = <<>> /\ Len(FetchEvents) = 1)

\* C5 witness: page 1 of 2 carried a block with a blank title and a block
\* without title, so it added nothing, and the run returned an empty list
\* after one fetch with the page counter below max_pages.
C5_Witness ==
    /\ pc = "done" /\ max_pages = 2 /\ page = 1
    /\ fetched = << <<BlockBlank, BlockNoTitle>> >>
    /\ items = <<>>
    /\ Len(FetchEvents) = 1

\* ---- the reference result of C6
\* the records of all blocks of the fetched pages, in page-then-block order
FetchedRecords ==
    LET all == Flatten(fetched)
    IN  [k \in 1..Len(all) |-> extract_from_block(all[k])]

\* record k is kept: its title is present and not blank, and no earlier
\* record has the same title
FirstOccurrence(recs, k) ==
    /\ recs[k].title.some
    /\ recs[k].title.text # <<>>
    /\ \A j \in 1..(k - 1) : recs[j].title # recs[k].title

RECURSIVE KeepFirsts(_, _)
KeepFirsts(recs, k) ==
    IF k > Len(recs) THEN <<>>
    ELSE (IF FirstOccurrence(recs, k) THEN <<recs[k]>> ELSE <<>>)
             \o KeepFirsts(recs, k + 1)

Truncated(recs, mi) ==
    IF mi >= 1 /\ Len(recs) > mi THEN SubSeq(recs, 1, mi) ELSE recs

Reference == Truncated(KeepFirsts(FetchedRecords, 1), max_items)

\* C6: the returned list is the reference sequence: the records of the blocks
\* of the fetched pages in page-then-block order, without the records whose
\* title is absent or blank and without those whose title occurred earlier,
\* cut to max_items when it is set.
C6_ResultIsReference == pc = "done" => items = Reference

\* C6 witness: page 1 has titles A and none, page 2 repeats A and adds B, no
\* cap: the run returns A then B, in page-then-block order.
C6_Witness ==
    /\ pc = "done" /\ max_items = 0
    /\ fetched = << <<BlockNoTitle, BlockSpanA>>, <<BlockSpanA, BlockLinkB>> >>
    /\ Len(items) = 2
    /\ items[1].title = TitleA /\ items[2].title = TitleB

\* the most steps one page can take: the request, one step per block, the
\* end of the for loop, the sleep and the step that stops or advances
PageCost == MaxBlocks + 4

\* an upper bound on the number of steps the run can still take
StepsLeft ==
    LET later == (max_pages - page) * PageCost + 1
    IN  CASE pc = "loop" ->
                 IF page <= max_pages THEN PageCost + later ELSE 1
          [] pc = "for" -> (Len(blocks) - idx + 1) + 3 + later
          [] pc = "sleep" -> 2 + later
          [] pc = "slept" -> 1 + later
          [] OTHER -> 0

\* C7: every run terminates and returns.  The run can always take a step
\* until it has returned, and every step lowers StepsLeft, a natural number
\* bounded by max_pages * PageCost + 1: so a run that keeps running (FairSpec)
\* returns after at most that many steps, through the max_pages bound, a
\* fetch failure, the item cap or the stop on a page without new records.
C7_Terminates ==
    /\ [][StepsLeft' < StepsLeft]_vars
    /\ [](StepsLeft >= 0)
    /\ [](pc # "done" => ENABLED Next)

\* The same in temporal form, under FairSpec: the return is reached.
EventuallyDone == <>Done

\* C7 witness: a run that used all of its max_pages = 2 pages, added a record
\* on each, and left the loop through the max_pages bound.
C7_Witness ==
    /\ pc = "done" /\ max_pages = 2 /\ page = 3
    /\ Len(items) = 2 /\ max_items = 0

\* C8, as claimed: after the append that reaches max_items the next event of
\* the run is the return: no append, no sleep and no fetch in between.
C8_NothingBetweenCapAndReturn ==
    \A k \in 1..Len(log) :
        (max_items >= 1 /\ IsAppend(log[k]) /\ log[k].n >= max_items) =>
            (k = Len(log) \/ IsReturn(log[k + 1]))

\* the append at position k of the log reached the item cap
ReachedCap(k) == max_items >= 1 /\ IsAppend(log[k]) /\ log[k].n >= max_items

\* C9: a page fetched with status 200 and processed without reaching the cap
\* is followed by exactly one sleep before the next fetch or the return, also
\* on the last page and on a page without new records.  In terms of the
\* events of the run: a sleep directly follows the fetch with status 200 or
\* an append of its own page (so never another sleep), an append never
\* follows a sleep, every fetch but the first directly follows a sleep, and
\* the return directly follows a sleep or a failed fetch - or, the case the
\* claim leaves open, the append that reached the cap.
C9_OneSleepPerPage ==
    \A k \in 1..Len(log) :
        /\ IsSleep(log[k]) =>
              /\ k > 1
              /\ log[k - 1].page = log[k].page
              /\ \/ IsFetch(log[k - 1]) /\ ~IsFailedFetch(log[k - 1])
                 \/ IsAppend(log[k - 1])
        /\ IsAppend(log[k]) =>
              /\ k > 1
              /\ log[k - 1].page = log[k].page
              /\ \/ IsFetch(log[k - 1]) /\ ~IsFailedFetch(log[k - 1])
                 \/ IsAppend(log[k - 1])
        /\ (IsFetch(log[k]) /\ k > 1) => IsSleep(log[k - 1])
        /\ IsReturn(log[k]) =>
              /\ k > 1
              /\ \/ IsSleep(log[k - 1])
                 \/ IsFailedFetch(log[k - 1])
                 \/ ReachedCap(k - 1)

\* C9 witness: without a cap, page 1 added a record, page 2 = max_pages added
\* none; the run slept once after each of them and returned.
C9_Witness ==
    /\ pc = "done" /\ max_items = 0 /\ max_pages = 2 /\ page = 2
    /\ found_this_page = 0
    /\ Len(fetched) = 2
    /\ Count(log, 1, Len(log), IsSleep) = 2

\* the records appended so far on the page being processed
AppendedThisPage ==
    Cardinality({k \in 1..Len(log) : IsAppend(log[k]) /\ log[k].page = page})

\* C10: every record of the result list has a present, non-empty title at
\* every step; seen holds exactly the titles of the result list, and
\* found_this_page counts exactly the records appended on the current page,
\* so a block without a title enters neither.
C10_TitlesPresent ==
    /\ \A k \in 1..Len(items) :
          items[k].title.some /\ items[k].title.text # <<>>
    /\ seen = {items[k].title.text : k \in 1..Len(items)}
    /\ <<>> \notin seen
    /\ pc \in {"for", "sleep", "slept"} => found_this_page = AppendedThisPage

\* C10 witness: the run met a block with title "" before title A on page 1 and
\* a block without title before title B on page 2, and returned A and B.
C10_Witness ==
    /\ pc = "done"
    /\ fetched = << <<BlockBlank, BlockSpanA>>, <<BlockNoTitle, BlockLinkB>> >>
    /\ Len(items) = 2
    /\ seen = {<<"A">>, <<"B">>}

\* --------------------------------------------- extract_from_block alone
\* "4.5 out of 5 stars"
LabelRating == <<"4", ".", "5", " ">> \o RatingPhrase
\* "Sponsored"
LabelSponsored == <<"S", "p", "o", "n", "s", "o", "r", "e", "d">>
\* "5 stars", a label without the phrase
LabelStars == <<"5", " ", "s", "t", "a", "r", "s">>

AriaLabels == {LabelRating, LabelSponsored, LabelStars}

\* <span class="a-icon-alt">\f4.5 out of 5 stars\n</span>, or none
RatingSpans == {NoElem, Elem(<< <<"\f">> \o LabelRating \o <<"\n">> >>)}

\* a block with rating markup
WithRating(block, span, labels) ==
    [block EXCEPT !.rating_span = span, !.aria_labels = labels]

\* The blocks extract_from_block is applied to: every block of the crawl,
\* with or without a rating icon, with up to MaxAriaLabels labelled elements.
RatingBlocks ==
    {WithRating(b, sp, ls) :
        b \in Blocks, sp \in RatingSpans,
        ls \in UNION {[1..n -> AriaLabels] : n \in 0..MaxAriaLabels}}

\* One call of extract_from_block (src/app.py:190) on any of these blocks,
\* outside a crawl: blocks holds the block, items receives the record.
ExtractInit ==
    /\ max_pages = 1
    /\ max_items = 0
    /\ pc = "extract"
    /\ page = 1
    /\ \E b \in RatingBlocks : blocks = <<b>>
    /\ idx = 1
    /\ items = <<>>
    /\ seen = {}
    /\ found_this_page = 0
    /\ fetched = <<>>
    /\ log = <<>>

ExtractStep ==
    /\ pc = "extract"
    /\ items' = <<extract_from_block(blocks[idx])>>
    /\ pc' = "extracted"
    /\ UNCHANGED <<max_pages, max_items, page, blocks, idx, seen,
                   found_this_page, fetched, log>>

ExtractNext == ExtractStep

ExtractSpec == ExtractInit /\ [][ExtractNext]_vars

\* the block has an element whose aria-label contains "out of 5 stars"
HasRatingLabel(block) ==
    \E k \in 1..Len(block.aria_labels) :
        Contains(block.aria_labels[k], RatingPhrase)

\* C11, as claimed: a block without rating icon that has at least one element
\* whose aria-label contains "out of 5 stars" gets a raw rating, wherever
\* that element stands among the labelled elements of the block.
C11_RatingFromAnyLabel ==
    (pc = "extracted" /\ ~blocks[1].rating_span.some
        /\ HasRatingLabel(blocks[1])) =>
       items[1].rating_raw.some

\* What the code does: without rating icon the raw rating is the label of the
\* first labelled element when that label contains the phrase, and None
\* otherwise.
C11_RatingFromFirstLabel ==
    (pc = "extracted" /\ ~blocks[1].rating_span.some) =>
       items[1].rating_raw =
          (IF Len(blocks[1].aria_labels) >= 1
                 /\ Contains(blocks[1].aria_labels[1], RatingPhrase)
           THEN PyStr(blocks[1].aria_labels[1])
           ELSE PyNone)

====
